---- MODULE Spec2Model ----
(***************************************************************************)
(* Model of src/src/generator/code.rs: Generator::generate_code and the    *)
(* Snippet accumulator.                                                     *)
(*                                                                          *)
(* Text.  A Rust String that is inspected character by character (a schema  *)
(* name, the name inside Type::Custom) is a sequence of one-character       *)
(* strings.  Snippet.code is a sequence of lines, each line a string        *)
(* without its terminating "\n": every piece the generator pushes ends in   *)
(* "\n" except the closing "}", which is always pushed last, so the line    *)
(* sequence and the byte string determine each other.                       *)
(***************************************************************************)
EXTENDS Integers, Sequences, FiniteSets, TLC

VARIABLES
    schema,          \* what provider.get_schema() yields on success
    options,         \* Generator.options: [singular, framework]
    pc,              \* position inside generate_code
    snippets,        \* the local `snippets` vector of generate_code
    bodies,          \* history: snippets[i].code when its closure returned
    finalized,       \* history: how often finalize ran on snippets[i]
    cursor,          \* the finalize loop: index of the next snippet
    provider_error,  \* the error get_schema() produced, "" when none
    result,          \* the value generate_code returned, Pending before
    run,             \* number of the current call of generate_code
    first,           \* the value the first call returned
    snippet,         \* add_type_imports on its own: the snippet passed
    rust_type,       \* add_type_imports on its own: the type passed
    before,          \* add_type_imports on its own: the snippet before
    called           \* add_type_imports on its own: the call has returned

vars == <<schema, options, pc, snippets, bodies, finalized, cursor,
          provider_error, result, run, first, snippet, rust_type, before, called>>

genVars == <<schema, options, pc, snippets, bodies, finalized, cursor,
             provider_error, result, run, first>>

impVars == <<snippet, rust_type, before, called>>

-----------------------------------------------------------------------------
(* Bounds *)

MaxRuns == 2

MaxDepth == 2

-----------------------------------------------------------------------------
(* Characters and strings *)

LowerChars ==
    <<"a","b","c","d","e","f","g","h","i","j","k","l","m",
      "n","o","p","q","r","s","t","u","v","w","x","y","z">>

UpperChars ==
    <<"A","B","C","D","E","F","G","H","I","J","K","L","M",
      "N","O","P","Q","R","S","T","U","V","W","X","Y","Z">>

DigitChars == <<"0","1","2","3","4","5","6","7","8","9">>

Elems(s) == {s[i] : i \in DOMAIN s}

IsLower(c) == c \in Elems(LowerChars)

IsUpper(c) == c \in Elems(UpperChars)

IsNumeric(c) == c \in Elems(DigitChars)

IsNotAlphanumeric(c) == ~(IsLower(c) \/ IsUpper(c) \/ IsNumeric(c))

ToUpper(c) ==
    IF IsLower(c)
    THEN UpperChars[CHOOSE i \in DOMAIN LowerChars : LowerChars[i] = c]
    ELSE c

ToLower(c) ==
    IF IsUpper(c)
    THEN LowerChars[CHOOSE i \in DOMAIN UpperChars : UpperChars[i] = c]
    ELSE c

\* The string a character sequence spells.
RECURSIVE Str(_)
Str(cs) == IF cs = <<>> THEN "" ELSE Head(cs) \o Str(Tail(cs))

\* str::starts_with
StartsWith(s, p) == Len(s) >= Len(p) /\ SubSeq(s, 1, Len(p)) = p

\* str::contains
Contains(s, p) ==
    \E i \in 1..(Len(s) - Len(p) + 1) : SubSeq(s, i, i + Len(p) - 1) = p

\* str::trim_end, as cruet applies it before converting
RECURSIVE TrimRight(_)
TrimRight(s) ==
    IF s # <<>> /\ s[Len(s)] = " " THEN TrimRight(SubSeq(s, 1, Len(s) - 1))
    ELSE s

\* One character of cruet's to_case_camel_like with the PascalCase options
\* (new_word = true, last_char = ' ', no separator injected, not inverted).
PascalStep(st, ch) ==
    IF IsNotAlphanumeric(ch) /\ st.found
    THEN [st EXCEPT !.new_word = TRUE]
    ELSE IF ~st.found /\ IsNotAlphanumeric(ch)
    THEN st
    ELSE IF IsNumeric(ch)
    THEN [st EXCEPT !.found = TRUE, !.new_word = TRUE,
                    !.out = Append(@, ch)]
    ELSE IF st.new_word
            \/ (IsLower(st.last_char) /\ IsUpper(ch) /\ st.last_char # " ")
    THEN [st EXCEPT !.found = TRUE, !.new_word = FALSE,
                    !.out = Append(@, ToUpper(ch))]
    ELSE [st EXCEPT !.found = TRUE, !.last_char = ch,
                    !.out = Append(@, ToLower(ch))]

RECURSIVE PascalFold(_, _)
PascalFold(st, s) ==
    IF s = <<>> THEN st ELSE PascalFold(PascalStep(st, Head(s)), Tail(s))

\* Inflector::to_pascal_case
to_pascal_case(s) ==
    PascalFold([new_word |-> TRUE, last_char |-> " ", found |-> FALSE,
                out |-> <<>>], TrimRight(s)).out

\* Inflector::to_singular, on regular plurals: a final "s" that does not
\* follow another "s" is dropped, anything else is returned unchanged.
to_singular(s) ==
    IF Len(s) >= 2 /\ s[Len(s)] = "s" /\ s[Len(s) - 1] # "s"
    THEN SubSeq(s, 1, Len(s) - 1)
    ELSE s

RECURSIVE Perms(_)
\* Every order in which the elements of a set can be iterated.
Perms(S) ==
    IF S = {} THEN {<<>>}
    ELSE UNION {{<<x>> \o p : p \in Perms(S \ {x})} : x \in S}

-----------------------------------------------------------------------------
(* rust::Type.  One record shape for every variant: the name is used by    *)
(* Custom only, inner holds the wrapped type of Option, Vector and Range.  *)

Leaf(tag) == [tag |-> tag, name |-> <<>>, inner |-> <<>>]

Custom(name) == [tag |-> "Custom", name |-> name, inner |-> <<>>]

Option(t) == [tag |-> "Option", name |-> <<>>, inner |-> <<t>>]

Vector(t) == [tag |-> "Vector", name |-> <<>>, inner |-> <<t>>]

Range(t) == [tag |-> "Range", name |-> <<>>, inner |-> <<t>>]

\* The variants add_type_imports maps to one import each.
LeafImport ==
    [Uuid |-> "uuid::Uuid",
     Date |-> "chrono::NaiveDate",
     Time |-> "chrono::NaiveTime",
     Timestamp |-> "chrono::NaiveDateTime",
     TimestampWithTz |-> "chrono::{DateTime, Utc}",
     Interval |-> "sqlx::postgres::types::PgInterval",
     Decimal |-> "rust_decimal::Decimal",
     IpNetwork |-> "ipnetwork::IpNetwork",
     Json |-> "serde_json::Value",
     Tree |-> "postgres_types::LTree",
     Query |-> "postgres_types::TSQuery",
     Money |-> "sqlx::postgres::types::PgMoney"]

\* Variants without an arm of their own in add_type_imports (`_ => {}`).
PrimitiveTags == {"String", "F64", "Bool"}

PgRangeImport == "sqlx::postgres::types::PgRange"

PostgisImport == "postgis"

OidImport == "sqlx::postgres::types::Oid"

PostgisPrefix == <<"p","o","s","t","g","i","s",":",":">>

OidName == <<"O","i","d">>

PathSep == <<":",":">>

\* Display of rust::Type, as `{rust_type}` formats it in a field line.
RECURSIVE TypeDisplay(_)
TypeDisplay(t) ==
    CASE t.tag = "Option" -> "Option<" \o TypeDisplay(t.inner[1]) \o ">"
      [] t.tag = "Vector" -> "Vec<" \o TypeDisplay(t.inner[1]) \o ">"
      [] t.tag = "Range" -> "PgRange<" \o TypeDisplay(t.inner[1]) \o ">"
      [] t.tag = "Custom" -> Str(t.name)
      [] t.tag = "Uuid" -> "Uuid"
      [] t.tag = "Date" -> "NaiveDate"
      [] t.tag = "Time" -> "NaiveTime"
      [] t.tag = "Timestamp" -> "NaiveDateTime"
      [] t.tag = "TimestampWithTz" -> "DateTime<Utc>"
      [] t.tag = "Interval" -> "PgInterval"
      [] t.tag = "Decimal" -> "Decimal"
      [] t.tag = "IpNetwork" -> "IpNetwork"
      [] t.tag = "Json" -> "Value"
      [] t.tag = "Tree" -> "LTree"
      [] t.tag = "Query" -> "TSQuery"
      [] t.tag = "Money" -> "PgMoney"
      [] t.tag = "F64" -> "f64"
      [] t.tag = "Bool" -> "bool"
      [] OTHER -> "String"

-----------------------------------------------------------------------------
(* Snippet *)

Snippet_new(id) ==
    [id |-> id, imports |-> {}, code |-> <<>>, dependencies |-> {}]

add_import(s, import) == [s EXCEPT !.imports = @ \cup {import}]

add_dependency(s, dependency) ==
    [s EXCEPT !.dependencies = @ \cup {dependency}]

\* snippet.code.push_str(line + "\n"), and the final push('}')
push_line(s, line) == [s EXCEPT !.code = Append(@, line)]

UseLine(import) == "use " \o import \o ";"

UseSuperLine(dep) == "use super::" \o Str(to_pascal_case(dep)) \o ";"

\* finalize with the separator forgotten: the header runs into the body.
finalize_no_separator(s, io, do) ==
    [s EXCEPT !.code =
        [i \in 1..Len(io) |-> UseLine(io[i])]
        \o [i \in 1..Len(do) |-> UseSuperLine(do[i])]
        \o s.code]

\* Snippet::finalize.  The two HashSets are iterated in an order the
\* program does not determine: io and do are the orders of this call.
finalize(s, io, do) ==
    [s EXCEPT !.code =
        [i \in 1..Len(io) |-> UseLine(io[i])]
        \o [i \in 1..Len(do) |-> UseSuperLine(do[i])]
        \o (IF s.imports # {} \/ s.dependencies # {} THEN <<"">> ELSE <<>>)
        \o s.code]

-----------------------------------------------------------------------------
(* Generator *)

RECURSIVE add_type_imports(_, _)

\* add_type_imports without the Oid arm: Oid is taken for a local type.
add_type_imports_no_oid(s, t) ==
    CASE t.tag \in DOMAIN LeafImport -> add_import(s, LeafImport[t.tag])
      [] t.tag = "Option" -> add_type_imports(s, t.inner[1])
      [] t.tag = "Vector" -> add_type_imports(s, t.inner[1])
      [] t.tag = "Range" ->
            add_type_imports(add_import(s, PgRangeImport), t.inner[1])
      [] t.tag = "Custom" ->
            IF StartsWith(t.name, PostgisPrefix)
            THEN add_import(s, PostgisImport)
            ELSE IF ~Contains(t.name, PathSep)
            THEN add_dependency(s, t.name)
            ELSE s
      [] OTHER -> s

\* add_type_imports without the Vector arm: an array's element type is
\* not looked at.
add_type_imports_vector_skipped(s, t) ==
    CASE t.tag \in DOMAIN LeafImport -> add_import(s, LeafImport[t.tag])
      [] t.tag = "Option" -> add_type_imports(s, t.inner[1])
      [] t.tag = "Range" ->
            add_type_imports(add_import(s, PgRangeImport), t.inner[1])
      [] t.tag = "Custom" ->
            IF StartsWith(t.name, PostgisPrefix)
            THEN add_import(s, PostgisImport)
            ELSE IF t.name = OidName
            THEN add_import(s, OidImport)
            ELSE IF ~Contains(t.name, PathSep)
            THEN add_dependency(s, t.name)
            ELSE s
      [] OTHER -> s

add_type_imports(s, t) ==
    CASE t.tag \in DOMAIN LeafImport -> add_import(s, LeafImport[t.tag])
      [] t.tag = "Option" -> add_type_imports(s, t.inner[1])
      [] t.tag = "Vector" -> add_type_imports(s, t.inner[1])
      [] t.tag = "Range" ->
            add_type_imports(add_import(s, PgRangeImport), t.inner[1])
      [] t.tag = "Custom" ->
            IF StartsWith(t.name, PostgisPrefix)
            THEN add_import(s, PostgisImport)
            ELSE IF t.name = OidName
            THEN add_import(s, OidImport)
            ELSE IF ~Contains(t.name, PathSep)
            THEN add_dependency(s, t.name)
            ELSE s
      [] OTHER -> s

add_framework_macros(s) ==
    IF options.framework = "None"
    THEN push_line(s, "#[derive(Debug, Clone)]")
    ELSE push_line(s, "#[derive(Debug, Clone, sqlx::FromRow)]")

DefaultMarker == "    #[sqlx(default)]"

RECURSIVE HasOption(_)
HasOption(t) ==
    t.tag = "Option" \/ (t.inner # <<>> /\ HasOption(t.inner[1]))

\* add_framework_attribute looking for Option at any depth.
add_framework_attribute_any_option(t, s) ==
    IF options.framework = "Sqlx" /\ HasOption(t)
    THEN push_line(s, DefaultMarker)
    ELSE s

add_framework_attribute(t, s) ==
    IF options.framework = "Sqlx" /\ t.tag = "Option"
    THEN push_line(s, DefaultMarker)
    ELSE s

format_name(name) == IF options.singular THEN to_singular(name) ELSE name

RenameMarker(value) == "    #[sqlx(rename = \"" \o Str(value) \o "\")]"

EnumMember(value) == "    " \o Str(to_pascal_case(value)) \o ","

FieldLine(field_name, t) ==
    "    pub " \o Str(field_name) \o ": " \o TypeDisplay(t) \o ","

\* The enum loop renaming to the converted spelling instead of the
\* schema's.
EnumValueStep_renamed_converted(s, value) ==
    push_line(IF options.framework = "Sqlx"
              THEN push_line(s, RenameMarker(to_pascal_case(value.name)))
              ELSE s,
              EnumMember(value.name))

\* The body of `for value in &e.values` for one value.
EnumValueStep(s, value) ==
    push_line(IF options.framework = "Sqlx"
              THEN push_line(s, RenameMarker(value.name))
              ELSE s,
              EnumMember(value.name))

RECURSIVE EnumValues(_, _)
EnumValues(s, values) ==
    IF values = <<>> THEN s
    ELSE EnumValues(EnumValueStep(s, Head(values)), Tail(values))

\* The closure of code_from_enums, for one enum.
EnumSnippet(e) ==
    LET name == to_pascal_case(e.name)
        s0 == Snippet_new(name)
        s1 == push_line(s0,
                 IF options.framework = "None"
                 THEN "#[derive(Debug, Clone, PartialEq, Eq)]"
                 ELSE "#[derive(Debug, Clone, PartialEq, Eq, sqlx::Type)]")
        s2 == push_line(s1, "pub enum " \o Str(name) \o " {")
    IN  push_line(EnumValues(s2, e.values), "}")

code_from_enums(enums) == [i \in 1..Len(enums) |-> EnumSnippet(enums[i])]

-----------------------------------------------------------------------------
(* Names occurring in the schemas below, as character sequences *)

N_mood == <<"m","o","o","d">>

N_ok == <<"o","k">>

N_past_due == <<"p","a","s","t","_","d","u","e">>

N_role == <<"r","o","l","e">>

N_admin == <<"a","d","m","i","n">>

N_points == <<"p","o","i","n","t","s">>

N_geo_tags == <<"g","e","o","_","t","a","g","s">>

N_users == <<"u","s","e","r","s">>

N_logs == <<"l","o","g","s">>

N_x == <<"x">>

N_at == <<"a","t">>

N_id == <<"i","d">>

N_r == <<"r">>

N_email == <<"e","m","a","i","l">>

N_home == <<"h","o","m","e">>

N_tags == <<"t","a","g","s">>

N_geom == <<"g","e","o","m">>

N_days == <<"d","a","y","s">>

N_o == <<"o">>

N_tag == <<"t","a","g">>

N_uuid == <<"u","u","i","d">>

N_text == <<"t","e","x","t">>

N_float8 == <<"f","l","o","a","t","8">>

N_date == <<"d","a","t","e">>

N_daterange == <<"d","a","t","e","r","a","n","g","e">>

N_Uuuid == <<"_","u","u","i","d">>

N_Utext == <<"_","t","e","x","t">>

N_geometry == <<"g","e","o","m","e","t","r","y">>

N_oid == <<"o","i","d">>

N_postgis_geometry ==
    <<"p","o","s","t","g","i","s",":",":","G","e","o","m">>

N_bit_vec == <<"b","i","t",":",":","B","i","t","s">>

-----------------------------------------------------------------------------
(* InfoProvider *)

\* InfoProvider::type_name_from: the native types the provider knows map to
\* their variant, every other name falls back to Custom carrying the name.
type_name_from(udt) ==
    CASE udt = N_uuid -> Leaf("Uuid")
      [] udt = N_text -> Leaf("String")
      [] udt = N_float8 -> Leaf("F64")
      [] udt = N_date -> Leaf("Date")
      [] udt = N_daterange -> Range(Leaf("Date"))
      [] udt = N_Uuuid -> Vector(Leaf("Uuid"))
      [] udt = N_Utext -> Vector(Option(Leaf("String")))
      [] udt = N_geometry -> Custom(N_postgis_geometry)
      [] udt = N_oid -> Custom(OidName)
      [] OTHER -> Custom(udt)

\* The errors get_schema() can fail with.
ProviderErrors == {"connection refused", "permission denied"}

-----------------------------------------------------------------------------
(* Generator, continued *)

\* The body of `for attr in &composite.attributes` for one attribute.
AttributeStep(s, attr) ==
    LET t == type_name_from(attr.data_type)
        s1 == add_type_imports(s, t)
        s2 == add_framework_attribute(t, s1)
    IN  push_line(s2, FieldLine(attr.name, t))

RECURSIVE Attributes(_, _)
Attributes(s, attrs) ==
    IF attrs = <<>> THEN s
    ELSE Attributes(AttributeStep(s, Head(attrs)), Tail(attrs))

StructLine(table_name) ==
    "pub struct " \o Str(to_pascal_case(table_name)) \o " {"

\* The closure of code_from_composites, for one composite type.
CompositeSnippet(composite) ==
    LET table_name == format_name(composite.name)
        s0 == Snippet_new(table_name)
        s1 == push_line(s0,
                 IF options.framework = "None"
                 THEN "#[derive(Debug, Clone)]"
                 ELSE "#[derive(Debug, Clone, sqlx::Type)]")
        s2 == push_line(s1, StructLine(table_name))
    IN  push_line(Attributes(s2, composite.attributes), "}")

code_from_composites(composites) ==
    [i \in 1..Len(composites) |-> CompositeSnippet(composites[i])]

\* The type of a column's field: the provider's type, in Option if nullable.
ColumnType(column) ==
    IF column.is_nullable
    THEN Option(type_name_from(column.udt_name))
    ELSE type_name_from(column.udt_name)

\* The body of `for column in &table.columns` for one column.
ColumnStep(s, column) ==
    LET t == ColumnType(column)
        s1 == add_type_imports(s, t)
        s2 == add_framework_attribute(t, s1)
    IN  push_line(s2, FieldLine(column.name, t))

RECURSIVE Columns(_, _)
Columns(s, columns) ==
    IF columns = <<>> THEN s
    ELSE Columns(ColumnStep(s, Head(columns)), Tail(columns))

\* The closure of code_from_tables, for one table.
TableSnippet(table) ==
    LET table_name == format_name(table.name)
        s0 == Snippet_new(table_name)
        s1 == add_framework_macros(s0)
        s2 == push_line(s1, StructLine(table_name))
    IN  push_line(Columns(s2, table.columns), "}")

\* code_from_tables walking the tables backwards.
code_from_tables_reversed(tables) ==
    [i \in 1..Len(tables) |-> TableSnippet(tables[Len(tables) + 1 - i])]

code_from_tables(tables) ==
    [i \in 1..Len(tables) |-> TableSnippet(tables[i])]

-----------------------------------------------------------------------------
(* Schemas *)

Value(n) == [name |-> n]

Attr(n, ty) == [name |-> n, data_type |-> ty]

Column(n, ty, nullable) ==
    [name |-> n, udt_name |-> ty, is_nullable |-> nullable]

EnumPool ==
    {[name |-> N_mood, values |-> <<Value(N_ok), Value(N_past_due)>>],
     [name |-> N_role, values |-> <<Value(N_admin)>>]}

CompositePool ==
    {[name |-> N_points,
      attributes |-> <<Attr(N_x, N_float8), Attr(N_geom, N_geometry)>>],
     [name |-> N_geo_tags,
      attributes |-> <<Attr(N_at, N_points), Attr(N_r, N_daterange)>>]}

TablePool ==
    {[name |-> N_users,
      columns |-> <<Column(N_id, N_uuid, FALSE),
                    Column(N_email, N_text, TRUE),
                    Column(N_home, N_points, TRUE),
                    Column(N_tags, N_Uuuid, TRUE)>>],
     [name |-> N_logs,
      columns |-> <<Column(N_o, N_oid, FALSE),
                    Column(N_tag, N_geo_tags, FALSE),
                    Column(N_mood, N_mood, TRUE),
                    Column(N_days, N_Utext, FALSE)>>]}

\* The sequences of distinct elements of S, in every order: a schema lists
\* no entity twice.
RECURSIVE DistinctSeqs(_)
DistinctSeqs(S) ==
    {<<>>} \cup UNION {{<<x>> \o q : q \in DistinctSeqs(S \ {x})} : x \in S}

Schemas ==
    [enumerations : DistinctSeqs(EnumPool),
     composite_types : DistinctSeqs(CompositePool),
     tables : DistinctSeqs(TablePool)]

OptionsSet == [singular : BOOLEAN, framework : {"None", "Sqlx"}]

\* rust::Type values of nesting depth at most d.
LeafTypes ==
    {Leaf(tag) : tag \in DOMAIN LeafImport \cup PrimitiveTags}
    \cup {Custom(N_postgis_geometry), Custom(OidName), Custom(N_points),
          Custom(N_bit_vec)}

RECURSIVE Types(_)
Types(d) ==
    IF d = 0 THEN LeafTypes
    ELSE LET T == Types(d - 1)
         IN  T \cup {Option(t) : t \in T} \cup {Vector(t) : t \in T}
               \cup {Range(t) : t \in T}

-----------------------------------------------------------------------------
(* generate_code *)

Pending == [kind |-> "Pending", error |-> "", list |-> <<>>]

Ok(list) == [kind |-> "Ok", error |-> "", list |-> list]

Err(e) == [kind |-> "Err", error |-> e, list |-> <<>>]

NoSnippet == Snippet_new(<<>>)

Init ==
    /\ schema \in Schemas
    /\ options \in OptionsSet
    /\ pc = "start"
    /\ snippets = <<>>
    /\ bodies = <<>>
    /\ finalized = <<>>
    /\ cursor = 1
    /\ provider_error = ""
    /\ result = Pending
    /\ run = 1
    /\ first = Pending
    /\ snippet = NoSnippet
    /\ rust_type = Leaf("String")
    /\ before = NoSnippet
    /\ called = FALSE

\* line 43: get_schema() succeeds; line 44: snippets = vec![]
GetSchemaOk ==
    /\ pc = "start"
    /\ pc' = "enums"
    /\ snippets' = <<>>
    /\ UNCHANGED <<schema, options, bodies, finalized, cursor,
                   provider_error, result, run, first>>
    /\ UNCHANGED impVars

\* get_schema() fails and the failure is swallowed: the run goes on with
\* what it has.
GetSchemaErr_continues ==
    /\ pc = "start"
    /\ \E e \in ProviderErrors : provider_error' = e
    /\ pc' = "enums"
    /\ UNCHANGED <<schema, options, snippets, bodies, finalized, cursor,
                   result, run, first>>
    /\ UNCHANGED impVars

\* line 43: get_schema() fails and `?` returns the error
GetSchemaErr ==
    /\ pc = "start"
    /\ \E e \in ProviderErrors :
          /\ provider_error' = e
          /\ result' = Err(e)
          /\ first' = IF run = 1 THEN Err(e) ELSE first
    /\ pc' = "done"
    /\ UNCHANGED <<schema, options, snippets, bodies, finalized, cursor, run>>
    /\ UNCHANGED impVars

\* The bookkeeping of one snippets.append(..): the history variables follow
\* the vector.
Appended(new) ==
    /\ snippets' = snippets \o new
    /\ bodies' = bodies \o [i \in 1..Len(new) |-> new[i].code]
    /\ finalized' = finalized \o [i \in 1..Len(new) |-> 0]

\* line 45
CodeFromEnums ==
    /\ pc = "enums"
    /\ Appended(code_from_enums(schema.enumerations))
    /\ pc' = "composites"
    /\ UNCHANGED <<schema, options, cursor, provider_error, result, run,
                   first>>
    /\ UNCHANGED impVars

\* line 46
CodeFromComposites ==
    /\ pc = "composites"
    /\ Appended(code_from_composites(schema.composite_types))
    /\ pc' = "tables"
    /\ UNCHANGED <<schema, options, cursor, provider_error, result, run,
                   first>>
    /\ UNCHANGED impVars

\* line 47
CodeFromTables ==
    /\ pc = "tables"
    /\ Appended(code_from_tables(schema.tables))
    /\ pc' = "finalize"
    /\ cursor' = 1
    /\ UNCHANGED <<schema, options, provider_error, result, run, first>>
    /\ UNCHANGED impVars

\* lines 50-52, one iteration of the loop
FinalizeNext ==
    /\ pc = "finalize"
    /\ cursor <= Len(snippets)
    /\ \E io \in Perms(snippets[cursor].imports),
          do \in Perms(snippets[cursor].dependencies) :
          snippets' = [snippets EXCEPT ![cursor] = finalize(@, io, do)]
    /\ finalized' = [finalized EXCEPT ![cursor] = @ + 1]
    /\ cursor' = cursor + 1
    /\ UNCHANGED <<schema, options, pc, bodies, provider_error, result, run,
                   first>>
    /\ UNCHANGED impVars

\* line 54
Return ==
    /\ pc = "finalize"
    /\ cursor > Len(snippets)
    /\ result' = Ok(snippets)
    /\ first' = IF run = 1 THEN Ok(snippets) ELSE first
    /\ pc' = "done"
    /\ UNCHANGED <<schema, options, snippets, bodies, finalized, cursor,
                   provider_error, run>>
    /\ UNCHANGED impVars

\* The caller calls generate_code again, on the same generator.
CallAgain ==
    /\ pc = "done"
    /\ run < MaxRuns
    /\ run' = run + 1
    /\ pc' = "start"
    /\ snippets' = <<>>
    /\ bodies' = <<>>
    /\ finalized' = <<>>
    /\ cursor' = 1
    /\ provider_error' = ""
    /\ result' = Pending
    /\ UNCHANGED <<schema, options, first>>
    /\ UNCHANGED impVars

Next ==
    \/ GetSchemaOk
    \/ GetSchemaErr
    \/ CodeFromEnums
    \/ CodeFromComposites
    \/ CodeFromTables
    \/ FinalizeNext
    \/ Return
    \/ CallAgain

Spec == Init /\ [][Next]_vars

-----------------------------------------------------------------------------
(* add_type_imports on its own: one call on any type up to MaxDepth *)

InitSnippets ==
    {Snippet_new(N_users), add_import(Snippet_new(N_users), PgRangeImport)}

InitImports ==
    /\ schema = [enumerations |-> <<>>, composite_types |-> <<>>,
                 tables |-> <<>>]
    /\ options = [singular |-> FALSE, framework |-> "None"]
    /\ pc = "imports"
    /\ snippets = <<>>
    /\ bodies = <<>>
    /\ finalized = <<>>
    /\ cursor = 1
    /\ provider_error = ""
    /\ result = Pending
    /\ run = 1
    /\ first = Pending
    /\ snippet \in InitSnippets
    /\ rust_type \in Types(MaxDepth)
    /\ before = snippet
    /\ called = FALSE

CallAddTypeImports ==
    /\ pc = "imports"
    /\ ~called
    /\ snippet' = add_type_imports(snippet, rust_type)
    /\ called' = TRUE
    /\ UNCHANGED <<rust_type, before>>
    /\ UNCHANGED genVars

NextImports == CallAddTypeImports

SpecImports == InitImports /\ [][NextImports]_vars

-----------------------------------------------------------------------------
(* Properties *)

\* generate_code has returned Ok(list).
Returned == pc = "done" /\ result.kind = "Ok"

NumEnums == Len(schema.enumerations)

NumComposites == Len(schema.composite_types)

NumTables == Len(schema.tables)

\* The declaration name of a composite type or table under the options:
\* the identifier after `pub struct`.
DeclarationName(raw) == to_pascal_case(format_name(raw))

\* The fields of the k-th struct entity (composites first, then tables),
\* each with its name and its final type: a nullable column's type is the
\* provider's type wrapped in Option.
StructFields(k) ==
    IF k <= NumComposites
    THEN LET a == schema.composite_types[k].attributes
         IN  [j \in 1..Len(a) |->
                 [name |-> a[j].name, type |-> type_name_from(a[j].data_type),
                  native |-> a[j].data_type]]
    ELSE LET c == schema.tables[k - NumComposites].columns
         IN  [j \in 1..Len(c) |->
                 [name |-> c[j].name,
                  type |-> IF c[j].is_nullable
                           THEN Option(type_name_from(c[j].udt_name))
                           ELSE type_name_from(c[j].udt_name),
                  native |-> c[j].udt_name]]

\* C1: when get_schema fails, generate_code returns the provider's error
\* itself and nothing else: no snippet was built or finalized and no list
\* is returned.
C1_ProviderFailureAborts ==
    provider_error # "" =>
        /\ pc = "done"
        /\ result.kind = "Err"
        /\ result.error = provider_error
        /\ result.list = <<>>
        /\ snippets = <<>>
        /\ bodies = <<>>
        /\ finalized = <<>>

C1_Witness ==
    /\ provider_error # ""
    /\ result.kind = "Err"
    /\ NumEnums > 0 /\ NumComposites > 0 /\ NumTables > 0

\* C2: on success the list holds one snippet per schema entity: the enums
\* first, then the composite types, then the tables, each group in schema
\* order.  Snippet i is recognised by its entity's declaration line.
C2_OnePerEntityInOrder ==
    Returned =>
        LET list == result.list
        IN  /\ Len(list) = NumEnums + NumComposites + NumTables
            /\ \A i \in 1..NumEnums :
                  ("pub enum "
                     \o Str(to_pascal_case(schema.enumerations[i].name))
                     \o " {") \in Elems(list[i].code)
            /\ \A i \in 1..NumComposites :
                  /\ ("pub struct "
                        \o Str(DeclarationName(schema.composite_types[i].name))
                        \o " {") \in Elems(list[NumEnums + i].code)
                  /\ list[NumEnums + i].id
                        = format_name(schema.composite_types[i].name)
            /\ \A i \in 1..NumTables :
                  /\ ("pub struct "
                        \o Str(DeclarationName(schema.tables[i].name))
                        \o " {")
                        \in Elems(list[NumEnums + NumComposites + i].code)
                  /\ list[NumEnums + NumComposites + i].id
                        = format_name(schema.tables[i].name)

C2_Witness ==
    /\ Returned
    /\ NumEnums = 2 /\ NumComposites = 2 /\ NumTables = 2
    /\ Len(result.list) = 6

\* C3, as claimed: every Custom(name) does exactly one of three things: a
\* postgis:: name adds the postgis import, Oid adds the Oid import, every
\* other name registers a dependency; none leaves both sets unchanged.
C3_ThreeWayAsClaimed ==
    (called /\ rust_type.tag = "Custom") =>
        LET n == rust_type.name
        IN  /\ StartsWith(n, PostgisPrefix)
                  => snippet = add_import(before, PostgisImport)
            /\ (~StartsWith(n, PostgisPrefix) /\ n = OidName)
                  => snippet = add_import(before, OidImport)
            /\ (~StartsWith(n, PostgisPrefix) /\ n # OidName)
                  => snippet = add_dependency(before, n)
            /\ \/ snippet.imports # before.imports
               \/ snippet.dependencies # before.dependencies

\* C3, amended: a postgis:: name adds the postgis import, Oid adds the Oid
\* import, every other name without "::" registers a dependency and adds no
\* import, and a name with "::" that does not start with postgis:: leaves
\* the snippet as it was.
C3_FourWay ==
    (called /\ rust_type.tag = "Custom") =>
        LET n == rust_type.name
        IN  /\ StartsWith(n, PostgisPrefix)
                  => snippet = add_import(before, PostgisImport)
            /\ (~StartsWith(n, PostgisPrefix) /\ n = OidName)
                  => snippet = add_import(before, OidImport)
            /\ (~StartsWith(n, PostgisPrefix) /\ n # OidName
                  /\ ~Contains(n, PathSep))
                  => /\ snippet = add_dependency(before, n)
                     /\ snippet.imports = before.imports
                     /\ n \in snippet.dependencies
            /\ (~StartsWith(n, PostgisPrefix) /\ Contains(n, PathSep))
                  => snippet = before

C3_Witness ==
    /\ called
    /\ rust_type = Custom(N_bit_vec)
    /\ snippet = before

\* C4, as claimed: a field naming another composite type of the schema
\* adds no import and one dependency, the declaration name of that type,
\* and the finalized code has the `use super::` line of that name.
C4_DependencyIsDeclarationName ==
    Returned =>
        \A k \in 1..(NumComposites + NumTables) :
            \A j \in DOMAIN StructFields(k) :
                \A c \in DOMAIN schema.composite_types :
                    StructFields(k)[j].native = schema.composite_types[c].name
                    =>
                    LET own == add_type_imports(Snippet_new(<<>>),
                                   type_name_from(StructFields(k)[j].native))
                        decl == DeclarationName(schema.composite_types[c].name)
                    IN  /\ own.imports = {}
                        /\ own.dependencies = {decl}
                        /\ ("use super::" \o Str(decl) \o ";")
                              \in Elems(result.list[NumEnums + k].code)

\* C5, as claimed: a second run on the same schema and options returns the
\* list the first run returned, header lines included.
C5_SecondRunIdentical ==
    (pc = "done" /\ run >= 2 /\ result.kind = "Ok" /\ first.kind = "Ok")
        => result = first

\* C6: a returned snippet's code is one use line per import, then one
\* `use super::` line per dependency, then a blank line iff one of the two
\* sets is non-empty, then the body as built; each snippet is finalized
\* once, and only after every entity has been built.
C6_HeaderOnceThenBody ==
    /\ \A i \in DOMAIN finalized :
          /\ finalized[i] <= 1
          /\ finalized[i] = 1 =>
                /\ pc \in {"finalize", "done"}
                /\ Len(snippets) = NumEnums + NumComposites + NumTables
    /\ Returned =>
          \A i \in DOMAIN result.list :
              LET s == result.list[i]
                  ni == Cardinality(s.imports)
                  nd == Cardinality(s.dependencies)
                  nb == IF ni + nd > 0 THEN 1 ELSE 0
              IN  /\ finalized[i] = 1
                  /\ Len(s.code) = ni + nd + nb + Len(bodies[i])
                  /\ {s.code[j] : j \in 1..ni}
                        = {"use " \o x \o ";" : x \in s.imports}
                  /\ {s.code[ni + j] : j \in 1..nd}
                        = {"use super::" \o Str(to_pascal_case(d)) \o ";" :
                              d \in s.dependencies}
                  /\ nb = 1 => s.code[ni + nd + 1] = ""
                  /\ SubSeq(s.code, ni + nd + nb + 1, Len(s.code)) = bodies[i]

C6_Witness ==
    /\ Returned
    /\ \E i \in DOMAIN result.list :
          /\ Cardinality(result.list[i].imports) = 2
          /\ Cardinality(result.list[i].dependencies) = 1
          /\ result.list[i].code[4] = ""
    /\ \E i \in DOMAIN result.list :
          /\ Cardinality(result.list[i].dependencies) = 2
          /\ Cardinality(result.list[i].imports) = 1
    /\ \E i \in DOMAIN result.list :
          /\ result.list[i].imports = {}
          /\ result.list[i].dependencies = {}
          /\ result.list[i].code = bodies[i]

\* C7: a field line is preceded by the default marker iff the framework is
\* Sqlx and the field's final type is Option at the top; so every nullable
\* column has it under Sqlx, a type with Option only inside Vector or Range
\* has none, and under None there is no marker at all.
C7_DefaultMarkerIffTopLevelOption ==
    Returned =>
        \A k \in 1..(NumComposites + NumTables) :
            LET code == result.list[NumEnums + k].code
                fields == StructFields(k)
                line(f) == "    pub " \o Str(f.name) \o ": "
                              \o TypeDisplay(f.type) \o ","
            IN  /\ \A j \in DOMAIN fields :
                      \E m \in DOMAIN code : code[m] = line(fields[j])
                /\ \A j \in DOMAIN fields : \A m \in DOMAIN code :
                      code[m] = line(fields[j]) =>
                          ((m > 1 /\ code[m - 1] = "    #[sqlx(default)]")
                            <=> (options.framework = "Sqlx"
                                   /\ fields[j].type.tag = "Option"))
                /\ Cardinality({m \in DOMAIN code :
                                   code[m] = "    #[sqlx(default)]"})
                      = IF options.framework = "Sqlx"
                        THEN Cardinality({j \in DOMAIN fields :
                                             fields[j].type.tag = "Option"})
                        ELSE 0

C7_Witness ==
    /\ Returned
    /\ options.framework = "Sqlx"
    /\ \E k \in 1..(NumComposites + NumTables) :
          \E j \in DOMAIN StructFields(k) :
              /\ StructFields(k)[j].type = Vector(Option(Leaf("String")))
    /\ \E k \in 1..(NumComposites + NumTables) :
          \E j \in DOMAIN StructFields(k) :
              /\ StructFields(k)[j].type.tag = "Option"
              /\ "    #[sqlx(default)]"
                    \in Elems(result.list[NumEnums + k].code)

\* C8: an enum's body is its two opening lines, then per value, in value
\* order, the member line with the converted name, under Sqlx preceded by
\* one rename marker carrying the schema spelling, and the closing brace;
\* under None it has no rename marker.
C8_EnumMembersAndRenames ==
    Returned =>
        \A i \in 1..NumEnums :
            LET code == result.list[i].code
                values == schema.enumerations[i].values
                n == Len(values)
                member(v) == "    " \o Str(to_pascal_case(v.name)) \o ","
                rename(v) == "    #[sqlx(rename = \"" \o Str(v.name) \o "\")]"
            IN  IF options.framework = "Sqlx"
                THEN /\ Len(code) = 3 + 2 * n
                     /\ \A j \in 1..n :
                           /\ code[1 + 2 * j] = rename(values[j])
                           /\ code[2 + 2 * j] = member(values[j])
                ELSE /\ Len(code) = 3 + n
                     /\ \A j \in 1..n : code[2 + j] = member(values[j])

C8_Witness ==
    /\ Returned
    /\ options.framework = "Sqlx"
    /\ NumEnums > 0
    /\ schema.enumerations[1].name = N_mood
    /\ result.list[1].code[5] = "    #[sqlx(rename = \"past_due\")]"
    /\ result.list[1].code[6] = "    PastDue,"

RECURSIVE InnermostLeaf(_)
InnermostLeaf(t) == IF t.inner = <<>> THEN t ELSE InnermostLeaf(t.inner[1])

RECURSIVE HasRange(_)
HasRange(t) == t.tag = "Range" \/ (t.inner # <<>> /\ HasRange(t.inner[1]))

\* C9: for a wrapped type add_type_imports adds what the innermost leaf
\* adds, and the PgRange import if a Range occurs in the nesting; Option(T)
\* and Vector(T) add what T adds.
C9_WrappersAddLeafImports ==
    called =>
        /\ snippet =
              LET leaf == add_type_imports(before, InnermostLeaf(rust_type))
              IN  IF HasRange(rust_type)
                  THEN [leaf EXCEPT !.imports = @ \cup {PgRangeImport}]
                  ELSE leaf
        /\ rust_type.tag \in {"Option", "Vector"}
              => snippet = add_type_imports(before, rust_type.inner[1])

C9_Witness ==
    /\ called
    /\ rust_type = Vector(Range(Leaf("Date")))
    /\ before.imports = {}
    /\ snippet.imports = {PgRangeImport, "chrono::NaiveDate"}
    /\ snippet.dependencies = {}

\* C10, as claimed: every returned snippet's id is the identifier after
\* `pub enum` or `pub struct` in its code.
C10_IdIsDeclarationName ==
    Returned =>
        \A i \in DOMAIN result.list :
            \/ ("pub enum " \o Str(result.list[i].id) \o " {")
                  \in Elems(result.list[i].code)
            \/ ("pub struct " \o Str(result.list[i].id) \o " {")
                  \in Elems(result.list[i].code)

====
